---- MODULE Spec2Model ----
(***************************************************************************)
(* Local order-book synchronisation: LocalOrderBook (utils/localOrderBook) *)
(* driven by the Task 2 depth-stream test (WSClient callbacks and          *)
(* fetchAndSyncSnapshot).                                                  *)
(*                                                                         *)
(* Three specifications share the variables:                               *)
(*   SpecBook    the LocalOrderBook class called directly with snapshots   *)
(*               and typed DepthUpdateEvents of every id pattern;          *)
(*   SpecLevels  the same calls, with events of every level pattern;       *)
(*   Spec        the Task 2 test body: stream callbacks interleaved with   *)
(*               the asynchronous snapshot fetch, replay and live updates. *)
(***************************************************************************)
EXTENDS Integers, Sequences, FiniteSets, TLC

VARIABLES
    bids,             \* LocalOrderBook.bids: Map price -> quantity
    asks,             \* LocalOrderBook.asks: Map price -> quantity
    lastUpdateId,     \* LocalOrderBook.lastUpdateId: number | null
    errors,           \* the errors array handed to applyEvent
    eventBuffer,      \* Task 2: events received before the snapshot is loaded
    snapshotReceived, \* Task 2: flag set once the snapshot is loaded
    messageCount,     \* Task 2: number of stream messages received
    pc,               \* Task 2: position of the test body
    ws,               \* the socket under WSClient: connecting, open or closed
    isOpen,           \* WSClient.isOpen
    streamNext,       \* environment: smallest update id the stream can still send
    fetchCount,       \* history: snapshot responses consumed by the fetch loop
    received,         \* history: every event handed to the message handler
    applied,          \* history: every event handed to applyEvent by Task 2,
                      \* or since the snapshot was loaded (SpecRun)
    base,             \* history: the snapshot the book was loaded from (SpecRun)
    validated,        \* Task 1: the data handed to bidAskValidator and its result
    last              \* history: the last operation, its input and the state before it

vars == <<bids, asks, lastUpdateId, errors, eventBuffer, snapshotReceived,
          messageCount, pc, ws, isOpen, streamNext, fetchCount,
          received, applied, base, validated, last>>

bookVars == <<bids, asks, lastUpdateId>>
taskVars == <<eventBuffer, snapshotReceived, messageCount, pc, ws, isOpen,
              streamNext, fetchCount, received, applied, base>>

----------------------------------------------------------------------------
(* Bounds *)

MaxId == 3            \* SpecBook: update ids range over 1..MaxId
MaxBookLevels == 1    \* SpecBook events, SpecBook and SpecLevels snapshots:
                      \* price levels carried by one of them
MaxErrors == 2        \* longest errors array a direct caller hands in
MaxLevelId == 2       \* SpecLevels: update ids range over 1..MaxLevelId
MaxLevels == 2        \* SpecLevels: price levels carried by one event
MaxStreamId == 3      \* Spec: update ids of the stream and of the snapshots
MaxStreamLevels == 1  \* Spec: price levels carried by one event or snapshot
MaxFetches == 3       \* Spec: the history counter fetchCount saturates here
MaxWsErrors == 1      \* SpecErrors: errors the socket reports in one session
MaxGapId == 4         \* SpecGap: update ids, enough for events after a gap
MaxDepth == 2         \* SpecValidator: longest bids or asks list of a response

----------------------------------------------------------------------------
(* Values *)

Null == -1            \* lastUpdateId = null
Undefined == -2       \* a field the received JSON object does not carry

Prices == {"10.0", "10.1"}
Qtys == {"0.00", "1", "2"}

\* parseFloat on the decimal strings used here; results are in tenths.
parseFloat(s) ==
    CASE s = "0"    -> 0
      [] s = "0.00" -> 0
      [] s = "1"    -> 10
      [] s = "2"    -> 20
      [] s = "10.0" -> 100
      [] s = "10.1" -> 101

\* Price levels of SpecLevels: one price with every quantity, another price
\* that is only ever set.
Levels == ({"10.0"} \X Qtys) \cup {<<"10.1", "1">>}

\* Price levels of SpecBook: one price with every quantity.
BookLevels == {"10.0"} \X Qtys

\* All arrays over S of length at most n.
SeqsUpTo(S, n) == UNION {[1..k -> S] : k \in 0..n}

\* Map<string, string> as a function on the set of its keys.
EmptyMap == [p \in {} |-> "0"]
MapSet(m, k, v) == [p \in (DOMAIN m) \cup {k} |-> IF p = k THEN v ELSE m[p]]
MapDelete(m, k) == [p \in (DOMAIN m) \ {k} |-> m[p]]

\* [bids, asks] arrays over the levels L holding at most n levels together.
LevelArrays(L, n) ==
    {pair \in SeqsUpTo(L, n) \X SeqsUpTo(L, n) :
        Len(pair[1]) + Len(pair[2]) <= n}

\* DepthUpdateEvent: U is the first and u the final update id of the event.
DepthUpdateEvents(maxId, L, n) ==
    {[U |-> U, u |-> u, bids |-> la[1], asks |-> la[2]] :
        U \in 1..maxId, u \in 1..maxId, la \in LevelArrays(L, n)}

WellFormed(E) == {e \in E : e.U <= e.u}

\* OrderBookSnapshot
OrderBookSnapshots(maxId, L, n) ==
    {[lastUpdateId |-> id, bids |-> la[1], asks |-> la[2]] :
        id \in 1..maxId, la \in LevelArrays(L, n)}

\* Inputs of SpecBook: every id pattern, few levels.
Events == WellFormed(DepthUpdateEvents(MaxId, BookLevels, MaxBookLevels))
Snapshots == OrderBookSnapshots(MaxId, BookLevels, MaxBookLevels)

\* Received objects that lack U or u (parsed JSON is not checked against the
\* DepthUpdateEvent type before it is handed on).
MalformedEvents ==
    {[U |-> U, u |-> u, bids |-> la[1], asks |-> la[2]] :
        U \in (1..MaxId) \cup {Undefined}, u \in (1..MaxId) \cup {Undefined},
        la \in LevelArrays(BookLevels, MaxBookLevels)}
    \ DepthUpdateEvents(MaxId, BookLevels, MaxBookLevels)

\* Inputs of SpecLevels: few ids, every level pattern.
LevelEvents == WellFormed(DepthUpdateEvents(MaxLevelId, Levels, MaxLevels))
LevelSnapshots == OrderBookSnapshots(MaxLevelId, Levels, MaxBookLevels)

NoEvent == [U |-> 0, u |-> 0, bids |-> <<>>, asks |-> <<>>]
NoSnapshot == [lastUpdateId |-> Null, bids |-> <<>>, asks |-> <<>>]

----------------------------------------------------------------------------
(* LocalOrderBook *)

Book == [bids |-> bids, asks |-> asks, lastUpdateId |-> lastUpdateId]

RECURSIVE setLevels(_, _)
\* for (const [price, qty] of levels) side.set(price, qty)
setLevels(side, levels) ==
    IF levels = <<>> THEN side
    ELSE setLevels(MapSet(side, levels[1][1], levels[1][2]), Tail(levels))

\* Mutant of setFromSnapshot: the two clear() calls are missing.
setFromSnapshot_NoClear(s) ==
    [bids |-> setLevels(bids, s.bids),
     asks |-> setLevels(asks, s.asks),
     lastUpdateId |-> s.lastUpdateId]

\* setFromSnapshot(snapshot): clear both sides, set every level, set the cursor.
setFromSnapshot(s) ==
    [bids |-> setLevels(EmptyMap, s.bids),
     asks |-> setLevels(EmptyMap, s.asks),
     lastUpdateId |-> s.lastUpdateId]

\* Mutant of applyLevels: a zero quantity is stored like any other.
applyLevels_NoDelete(side, levels) == setLevels(side, levels)

RECURSIVE applyLevels_KeepExisting(_, _)
\* Mutant of applyLevels: a price the side already holds is not overwritten.
applyLevels_KeepExisting(side, levels) ==
    IF levels = <<>> THEN side
    ELSE LET price == levels[1][1]
             qty == levels[1][2]
         IN  applyLevels_KeepExisting(
                 IF parseFloat(qty) = 0 THEN MapDelete(side, price)
                 ELSE IF price \in DOMAIN side THEN side
                 ELSE MapSet(side, price, qty),
                 Tail(levels))

RECURSIVE applyLevels(_, _)
\* for (const [price, qty] of levels)
\*   if (parseFloat(qty) === 0) side.delete(price) else side.set(price, qty)
applyLevels(side, levels) ==
    IF levels = <<>> THEN side
    ELSE LET price == levels[1][1]
             qty == levels[1][2]
         IN  applyLevels(IF parseFloat(qty) = 0
                            THEN MapDelete(side, price)
                            ELSE MapSet(side, price, qty),
                         Tail(levels))

\* The message pushed for an out-of-sequence event: its two interpolated numbers.
GapMessage(U, expected) == <<"out of sequence", U, expected>>

\* Mutant of applyEvent: the out-of-sequence branch pushes its message but
\* does not return.
applyEvent_GapFallsThrough(b, event, errs) ==
    LET gap == b.lastUpdateId # Null /\ event.U > b.lastUpdateId + 1 IN
    IF b.lastUpdateId # Null /\ event.u < b.lastUpdateId
    THEN [bids |-> b.bids, asks |-> b.asks, lastUpdateId |-> b.lastUpdateId,
          errors |-> errs.list]
    ELSE [bids |-> applyLevels(b.bids, event.bids),
          asks |-> applyLevels(b.asks, event.asks),
          lastUpdateId |-> event.u,
          errors |-> IF gap /\ errs.given
                        THEN Append(errs.list,
                                    GapMessage(event.U, b.lastUpdateId + 1))
                        ELSE errs.list]

\* Mutant of applyEvent: the outdated-event test is missing.
applyEvent_NoStaleCheck(b, event, errs) ==
    IF b.lastUpdateId # Null /\ event.U > b.lastUpdateId + 1
    THEN [bids |-> b.bids, asks |-> b.asks, lastUpdateId |-> b.lastUpdateId,
          errors |-> IF errs.given
                        THEN Append(errs.list,
                                    GapMessage(event.U, b.lastUpdateId + 1))
                        ELSE errs.list]
    ELSE [bids |-> applyLevels(b.bids, event.bids),
          asks |-> applyLevels(b.asks, event.asks),
          lastUpdateId |-> event.u,
          errors |-> errs.list]

\* Mutant of applyEvent: the cursor is taken from U in place of u.
applyEvent_CursorFromU(b, event, errs) ==
    IF b.lastUpdateId # Null /\ event.u < b.lastUpdateId
    THEN [bids |-> b.bids, asks |-> b.asks, lastUpdateId |-> b.lastUpdateId,
          errors |-> errs.list]
    ELSE IF b.lastUpdateId # Null /\ event.U > b.lastUpdateId + 1
    THEN [bids |-> b.bids, asks |-> b.asks, lastUpdateId |-> b.lastUpdateId,
          errors |-> IF errs.given
                        THEN Append(errs.list,
                                    GapMessage(event.U, b.lastUpdateId + 1))
                        ELSE errs.list]
    ELSE [bids |-> applyLevels(b.bids, event.bids),
          asks |-> applyLevels(b.asks, event.asks),
          lastUpdateId |-> event.U,
          errors |-> errs.list]

\* Mutant of applyEvent: an out-of-sequence event is dropped without a message.
applyEvent_SilentGap(b, event, errs) ==
    IF b.lastUpdateId # Null
          /\ (event.u < b.lastUpdateId \/ event.U > b.lastUpdateId + 1)
    THEN [bids |-> b.bids, asks |-> b.asks, lastUpdateId |-> b.lastUpdateId,
          errors |-> errs.list]
    ELSE [bids |-> applyLevels(b.bids, event.bids),
          asks |-> applyLevels(b.asks, event.asks),
          lastUpdateId |-> event.u,
          errors |-> errs.list]

\* Mutant of applyEvent: an out-of-sequence event is reported and dropped, but
\* the cursor moves on to it.
applyEvent_GapAdvances(b, event, errs) ==
    IF b.lastUpdateId # Null /\ event.u < b.lastUpdateId
    THEN [bids |-> b.bids, asks |-> b.asks, lastUpdateId |-> b.lastUpdateId,
          errors |-> errs.list]
    ELSE IF b.lastUpdateId # Null /\ event.U > b.lastUpdateId + 1
    THEN [bids |-> b.bids, asks |-> b.asks, lastUpdateId |-> event.u,
          errors |-> IF errs.given
                        THEN Append(errs.list,
                                    GapMessage(event.U, b.lastUpdateId + 1))
                        ELSE errs.list]
    ELSE [bids |-> applyLevels(b.bids, event.bids),
          asks |-> applyLevels(b.asks, event.asks),
          lastUpdateId |-> event.u,
          errors |-> errs.list]

\* applyEvent(event, errors) on book b; errs.given is FALSE when the optional
\* errors argument is omitted.  The result is the book and the errors array.
\* U and u are numbers or Undefined (typeof u === 'number' is u # Undefined,
\* and undefined > n is false); bids and asks are arrays here, so both
\* Array.isArray tests hold.
applyEvent(b, event, errs) ==
    LET out(book, list) == [bids |-> book.bids, asks |-> book.asks,
                            lastUpdateId |-> book.lastUpdateId, errors |-> list]
        checked == event.u # Undefined /\ b.lastUpdateId # Null
    IN
    IF checked /\ event.u < b.lastUpdateId
    THEN out(b, errs.list)
    ELSE IF checked /\ event.U # Undefined /\ event.U > b.lastUpdateId + 1
    THEN out(b, IF errs.given
                   THEN Append(errs.list, GapMessage(event.U, b.lastUpdateId + 1))
                   ELSE errs.list)
    ELSE out([bids |-> applyLevels(b.bids, event.bids),
              asks |-> applyLevels(b.asks, event.asks),
              lastUpdateId |-> IF event.u # Undefined
                                  THEN event.u ELSE b.lastUpdateId],
             errs.list)

\* null as the result of getTopBid and getTopAsk
NoLevel == <<>>

RECURSIVE entries(_)
\* Array.from(side.entries()).  A Map iterates in insertion order, which the
\* function standing for it does not keep; the prices used here have distinct
\* numeric values, so the head of the sorted array does not depend on it.
entries(side) ==
    IF DOMAIN side = {} THEN <<>>
    ELSE LET p == CHOOSE q \in DOMAIN side : TRUE
         IN  <<<<p, side[p]>>>> \o entries(MapDelete(side, p))

\* .map(([p, q]) => [parseFloat(p), parseFloat(q)])
parsedEntries(side) ==
    LET arr == entries(side)
    IN  [i \in DOMAIN arr |-> <<parseFloat(arr[i][1]), parseFloat(arr[i][2])>>]

RECURSIVE insertSorted(_, _, _)
\* x placed into the sorted array, after every element that does not compare
\* greater than it; the comparator is (a, b) => dir * (a[0] - b[0]).
insertSorted(sorted, x, dir) ==
    IF sorted = <<>> THEN <<x>>
    ELSE IF dir * (sorted[1][1] - x[1]) > 0
    THEN <<x>> \o sorted
    ELSE <<sorted[1]>> \o insertSorted(Tail(sorted), x, dir)

RECURSIVE sort(_, _)
\* Array.prototype.sort (stable) with the comparator of direction dir.
sort(arr, dir) ==
    IF arr = <<>> THEN <<>>
    ELSE insertSorted(sort(SubSeq(arr, 1, Len(arr) - 1), dir), arr[Len(arr)], dir)

\* getTopBid(): sort by (a, b) => b[0] - a[0], return the head or null.
getTopBid(side) ==
    LET sorted == sort(parsedEntries(side), -1)
    IN  IF Len(sorted) > 0 /\ Len(sorted[1]) = 2 THEN sorted[1] ELSE NoLevel

\* Mutant of getTopAsk: the comparator of getTopBid is used.
getTopAsk_Descending(side) == getTopBid(side)

\* getTopAsk(): sort by (a, b) => a[0] - b[0], return the head or null.
getTopAsk(side) ==
    LET sorted == sort(parsedEntries(side), 1)
    IN  IF Len(sorted) > 0 /\ Len(sorted[1]) = 2 THEN sorted[1] ELSE NoLevel

----------------------------------------------------------------------------
(* History record *)

\* Nothing has been handed to bidAskValidator yet.
NotValidated == [bids |-> <<>>, asks |-> <<>>, result |-> FALSE]

Pre == [bids |-> bids, asks |-> asks, lastUpdateId |-> lastUpdateId,
        errors |-> errors, eventBuffer |-> eventBuffer,
        snapshotReceived |-> snapshotReceived, messageCount |-> messageCount]

Last(op, ev, snap, pre) ==
    [op |-> op, event |-> ev, snapshot |-> snap, pre |-> pre]

----------------------------------------------------------------------------
(* SpecBook: the class on its own *)

InitCommon ==
    /\ bids = EmptyMap
    /\ asks = EmptyMap
    /\ lastUpdateId = Null
    /\ errors = <<>>
    /\ eventBuffer = <<>>
    /\ snapshotReceived = FALSE
    /\ messageCount = 0
    /\ pc = "fetching"
    /\ ws = "connecting"
    /\ isOpen = FALSE
    /\ streamNext = 1
    /\ fetchCount = 0
    /\ received = <<>>
    /\ applied = <<>>
    /\ base = NoSnapshot
    /\ validated = NotValidated

Init ==
    /\ InitCommon
    /\ last = Last("none", NoEvent, NoSnapshot, Pre)

\* localOrderBook.setFromSnapshot(s) for some s of S
CallSetFromSnapshot(S) ==
    /\ last.op = "none"
    /\ \E s \in S :
        LET b == setFromSnapshot(s) IN
        /\ bids' = b.bids
        /\ asks' = b.asks
        /\ lastUpdateId' = b.lastUpdateId
        /\ UNCHANGED validated
        /\ last' = Last("setFromSnapshot", NoEvent, s, Pre)
        /\ UNCHANGED <<errors, taskVars>>

\* localOrderBook.applyEvent(e, errors) for some e of E, as every caller in the
\* repository calls it; a caller whose array is full starts a new one.
CallApplyEvent(E) ==
    /\ last.op = "none"
    /\ \E e \in E :
        LET list == IF Len(errors) < MaxErrors THEN errors ELSE <<>>
            r == applyEvent(Book, e, [given |-> TRUE, list |-> list])
        IN
        /\ bids' = r.bids
        /\ asks' = r.asks
        /\ lastUpdateId' = r.lastUpdateId
        /\ errors' = r.errors
        /\ UNCHANGED validated
        /\ last' = Last("applyEvent", e, NoSnapshot,
                        [Pre EXCEPT !.errors = list])
        /\ UNCHANGED taskVars

\* The record of the last call is dropped before the next call is made; the
\* program's state does not change.
Forget ==
    /\ last.op # "none"
    /\ UNCHANGED validated
    /\ last' = Last("none", NoEvent, NoSnapshot, Pre)
    /\ UNCHANGED <<bookVars, errors, taskVars>>

BookSetFromSnapshot == CallSetFromSnapshot(Snapshots)
BookApplyEvent == CallApplyEvent(Events)

NextBook == BookSetFromSnapshot \/ BookApplyEvent \/ Forget

SpecBook == Init /\ [][NextBook]_vars

\* SpecMalformed: the class handed objects that lack U or u as well.
MalformedApplyEvent == CallApplyEvent(MalformedEvents)

NextMalformed ==
    BookSetFromSnapshot \/ BookApplyEvent \/ MalformedApplyEvent \/ Forget

SpecMalformed == Init /\ [][NextMalformed]_vars

LevelsSetFromSnapshot == CallSetFromSnapshot(LevelSnapshots)
LevelsApplyEvent == CallApplyEvent(LevelEvents)

NextLevels == LevelsSetFromSnapshot \/ LevelsApplyEvent \/ Forget

SpecLevels == Init /\ [][NextLevels]_vars

\* SpecRun: a book loaded from a snapshot and then handed a gapless run of
\* events: the first continues the snapshot, each later one starts at the id
\* after the one before it.
RunEvents == WellFormed(DepthUpdateEvents(MaxLevelId, BookLevels, MaxBookLevels))
RunSnapshots ==
    OrderBookSnapshots(MaxLevelId, {<<"10.0", "1">>}, MaxBookLevels)

RunSetFromSnapshot ==
    /\ lastUpdateId = Null
    /\ \E s \in RunSnapshots :
        LET b == setFromSnapshot(s) IN
        /\ bids' = b.bids
        /\ asks' = b.asks
        /\ lastUpdateId' = b.lastUpdateId
        /\ base' = s
        /\ applied' = <<>>
        /\ UNCHANGED validated
        /\ last' = Last("setFromSnapshot", NoEvent, s, Pre)
    /\ UNCHANGED <<errors, eventBuffer, snapshotReceived, messageCount, pc, ws,
                   isOpen, streamNext, fetchCount, received>>

RunApplyEvent ==
    /\ lastUpdateId # Null
    /\ \E e \in RunEvents :
        LET r == applyEvent(Book, e, [given |-> TRUE, list |-> errors]) IN
        /\ IF applied = <<>>
              THEN e.U <= lastUpdateId + 1 /\ e.u >= lastUpdateId
              ELSE e.U = lastUpdateId + 1
        /\ bids' = r.bids
        /\ asks' = r.asks
        /\ lastUpdateId' = r.lastUpdateId
        /\ errors' = r.errors
        /\ applied' = Append(applied, e)
        /\ UNCHANGED validated
        /\ last' = Last("applyEvent", e, NoSnapshot, Pre)
    /\ UNCHANGED <<eventBuffer, snapshotReceived, messageCount, pc, ws, isOpen,
                   streamNext, fetchCount, received, base>>

NextRun == RunSetFromSnapshot \/ RunApplyEvent

SpecRun == Init /\ [][NextRun]_vars

----------------------------------------------------------------------------
(* Task 2: the depth-stream test *)

\* Inputs of Spec.  The stream delivers events in increasing id order (each U
\* above the previous event's u); an event is lost when U skips ids.
\* The snapshots hold one price, which the events remove.
StreamLevels == {<<"10.0", "0.00">>}
SnapshotLevels == {<<"10.0", "1">>}
StreamEvents ==
    WellFormed(DepthUpdateEvents(MaxStreamId, StreamLevels, MaxStreamLevels))
StreamSnapshots ==
    OrderBookSnapshots(MaxStreamId, SnapshotLevels, MaxStreamLevels)

\* The state the callbacks and fetchAndSyncSnapshot share.
Task == [bids |-> bids, asks |-> asks, lastUpdateId |-> lastUpdateId,
         errors |-> errors, eventBuffer |-> eventBuffer,
         snapshotReceived |-> snapshotReceived, messageCount |-> messageCount,
         pc |-> pc, applied |-> applied]

BookOf(t) == [bids |-> t.bids, asks |-> t.asks, lastUpdateId |-> t.lastUpdateId]

\* function applyEvent(json): localOrderBook.applyEvent(json, errors); the
\* top-of-book logging that follows changes nothing.
taskApplyEvent(t, json) ==
    LET r == applyEvent(BookOf(t), json, [given |-> TRUE, list |-> t.errors])
    IN  [t EXCEPT !.bids = r.bids, !.asks = r.asks,
                  !.lastUpdateId = r.lastUpdateId, !.errors = r.errors,
                  !.applied = Append(t.applied, json)]

\* Mutant of onMessage: every event is applied on arrival.
onMessage_ApplyAlways(t, json) ==
    taskApplyEvent([t EXCEPT !.messageCount = t.messageCount + 1], json)

\* The message callback handed to wsClient.connect.
onMessage(t, json) ==
    LET counted == [t EXCEPT !.messageCount = t.messageCount + 1] IN
    IF ~t.snapshotReceived
    THEN [counted EXCEPT !.eventBuffer = Append(t.eventBuffer, json)]
    ELSE taskApplyEvent(counted, json)

\* Mutant of snapshotIsStale: the first snapshot is always taken.
snapshotIsStale_Never(buffer, s) == FALSE

\* The re-fetch test of the snapshot loop.
snapshotIsStale(buffer, s) ==
    /\ Len(buffer) > 0
    /\ buffer[1].U # 0
    /\ s.lastUpdateId < buffer[1].U

RECURSIVE skipDiscarded_Strict(_, _, _)
\* Mutant of skipDiscarded: u < id in place of u <= id.
skipDiscarded_Strict(buffer, id, i) ==
    IF i < Len(buffer) /\ id # Null /\ buffer[i + 1].u < id
    THEN skipDiscarded_Strict(buffer, id, i + 1)
    ELSE i

RECURSIVE skipDiscarded_ByFirstId(_, _, _)
\* Mutant of skipDiscarded: U <= id in place of u <= id.
skipDiscarded_ByFirstId(buffer, id, i) ==
    IF i < Len(buffer) /\ id # Null /\ buffer[i + 1].U <= id
    THEN skipDiscarded_ByFirstId(buffer, id, i + 1)
    ELSE i

RECURSIVE skipDiscarded(_, _, _)
\* let i = 0; while (i < buffer.length && id !== null && buffer[i].u <= id) i++
\* (i counts the events passed over; buffer[i] of the code is buffer[i + 1] here)
skipDiscarded(buffer, id, i) ==
    IF i < Len(buffer) /\ id # Null /\ buffer[i + 1].u <= id
    THEN skipDiscarded(buffer, id, i + 1)
    ELSE i

RECURSIVE replayFrom_LastFirst(_, _, _)
\* Mutant of replayFrom: the buffer is replayed from its end.
replayFrom_LastFirst(t, buffer, i) ==
    IF i < Len(buffer)
    THEN replayFrom_LastFirst(taskApplyEvent(t, buffer[Len(buffer)]),
                              SubSeq(buffer, 1, Len(buffer) - 1), i)
    ELSE t

RECURSIVE replayFrom(_, _, _)
\* for (; i < buffer.length; i++) applyEvent(buffer[i])
replayFrom(t, buffer, i) ==
    IF i < Len(buffer)
    THEN replayFrom(taskApplyEvent(t, buffer[i + 1]), buffer, i + 1)
    ELSE t

\* Mutant of syncSnapshot: the buffer is not cleared after the replay.
syncSnapshot_KeepsBuffer(t, s) ==
    LET b == setFromSnapshot(s)
        init == [t EXCEPT !.bids = b.bids, !.asks = b.asks,
                          !.lastUpdateId = b.lastUpdateId,
                          !.snapshotReceived = TRUE]
        i == skipDiscarded(t.eventBuffer, init.lastUpdateId, 0)
        replayed == replayFrom(init, t.eventBuffer, i)
    IN  [replayed EXCEPT !.pc = "listening"]

\* What fetchAndSyncSnapshot does once a snapshot is accepted.
syncSnapshot(t, s) ==
    LET b == setFromSnapshot(s)
        loaded == [t EXCEPT !.bids = b.bids, !.asks = b.asks,
                            !.lastUpdateId = b.lastUpdateId,
                            !.snapshotReceived = TRUE]
        i == skipDiscarded(t.eventBuffer, loaded.lastUpdateId, 0)
        replayed == replayFrom(loaded, t.eventBuffer, i)
    IN  [replayed EXCEPT !.eventBuffer = <<>>, !.pc = "listening"]

\* One turn of the loop of fetchAndSyncSnapshot, resumed with the response s
\* (its local variable snapshot); a stale s leaves the loop awaiting the next.
fetchAndSyncSnapshot(t, s) ==
    IF snapshotIsStale(t.eventBuffer, s)
    THEN t
    ELSE syncSnapshot(t, s)

SetTask(t) ==
    /\ bids' = t.bids
    /\ asks' = t.asks
    /\ lastUpdateId' = t.lastUpdateId
    /\ errors' = t.errors
    /\ eventBuffer' = t.eventBuffer
    /\ snapshotReceived' = t.snapshotReceived
    /\ messageCount' = t.messageCount
    /\ pc' = t.pc
    /\ applied' = t.applied

\* ws.on('open')
WsOpen ==
    /\ ws = "connecting"
    /\ ws' = "open"
    /\ isOpen' = TRUE
    /\ UNCHANGED validated
    /\ last' = Last("open", NoEvent, NoSnapshot, Pre)
    /\ UNCHANGED <<bookVars, errors, eventBuffer, snapshotReceived, messageCount,
                   pc, streamNext, fetchCount, received, applied, base>>

\* ws.on('message') with a well-formed depth update of E
WsMessageOf(E) ==
    \E e \in E :
        /\ ws = "open"
        /\ e.U >= streamNext
        /\ SetTask(onMessage(Task, e))
        /\ streamNext' = e.u + 1
        /\ received' = Append(received, e)
        /\ UNCHANGED validated
        /\ last' = Last("onMessage", e, NoSnapshot, Pre)
        /\ UNCHANGED <<ws, isOpen, fetchCount, base>>

WsMessage == WsMessageOf(StreamEvents)

\* The awaited fetchRestSnapshot resolves with some s of S.
FetchResponseOf(S) ==
    \E s \in S :
        /\ pc = "fetching"
        /\ SetTask(fetchAndSyncSnapshot(Task, s))
        /\ fetchCount' = IF fetchCount < MaxFetches THEN fetchCount + 1 ELSE fetchCount
        /\ UNCHANGED validated
        /\ last' = Last("fetch", NoEvent, s, Pre)
        /\ UNCHANGED <<ws, isOpen, streamNext, received, base>>

FetchResponse == FetchResponseOf(StreamSnapshots)

\* The awaited fetchRestSnapshot rejects (axios.get fails).  Nothing catches
\* the rejection: it leaves fetchAndSyncSnapshot and the test body, which
\* ends there without reaching wsClient.close().
FetchFailure ==
    /\ pc = "fetching"
    /\ pc' = "failed"
    /\ UNCHANGED validated
    /\ last' = Last("fetchFailed", NoEvent, NoSnapshot, Pre)
    /\ UNCHANGED <<bookVars, errors, eventBuffer, snapshotReceived, messageCount,
                   ws, isOpen, streamNext, fetchCount, received, applied, base>>

\* The listening window ends: wsClient.close(), then the summary.
CloseAndSummarize ==
    /\ pc = "listening"
    /\ pc' = "done"
    /\ ws' = IF isOpen THEN "closed" ELSE ws
    /\ isOpen' = FALSE
    /\ UNCHANGED validated
    /\ last' = Last("close", NoEvent, NoSnapshot, Pre)
    /\ UNCHANGED <<bookVars, errors, eventBuffer, snapshotReceived, messageCount,
                   streamNext, fetchCount, received, applied, base>>

Next ==
    WsOpen \/ WsMessage \/ FetchResponse \/ FetchFailure \/ CloseAndSummarize

Spec == Init /\ [][Next]_vars

\* The message pushed by the error callback: 'WebSocket error: ' + err.message.
WsErrorMessage == <<"WebSocket error">>

\* The error callback handed to wsClient.connect.
onError(t) == [t EXCEPT !.errors = Append(t.errors, WsErrorMessage)]

WsErrorCount == Len(SelectSeq(errors, LAMBDA m : m = WsErrorMessage))

\* The JSON value null as a received payload: it has no field at all.
JsonNull == [U |-> Null, u |-> Null, bids |-> <<>>, asks |-> <<>>]

\* ws.on('error'): the socket reports an error and is closed by the library.
WsError ==
    /\ ws # "closed"
    /\ WsErrorCount < MaxWsErrors
    /\ SetTask(onError(Task))
    /\ ws' = "closed"
    /\ UNCHANGED validated
    /\ last' = Last("onError", NoEvent, NoSnapshot, Pre)
    /\ UNCHANGED <<isOpen, streamNext, fetchCount, received, base>>

\* ws.on('message') with a payload that is not JSON: JSON.parse throws and
\* the catch clause calls the error callback; the message callback is not
\* called.
WsBadMessage ==
    /\ ws = "open"
    /\ WsErrorCount < MaxWsErrors
    /\ SetTask(onError(Task))
    /\ UNCHANGED validated
    /\ last' = Last("badMessage", NoEvent, NoSnapshot, Pre)
    /\ UNCHANGED <<ws, isOpen, streamNext, fetchCount, received, base>>

\* Mutant of WsNullMessage: the exception of the message callback leaves the
\* listener and the error callback is not called.
WsNullMessage_Uncaught ==
    /\ ws = "open"
    /\ snapshotReceived
    /\ WsErrorCount < MaxWsErrors
    /\ SetTask([Task EXCEPT !.messageCount = messageCount + 1,
                             !.applied = Append(applied, JsonNull)])
    /\ received' = Append(received, JsonNull)
    /\ UNCHANGED validated
    /\ last' = Last("onMessage", JsonNull, NoSnapshot, Pre)
    /\ UNCHANGED <<ws, isOpen, streamNext, fetchCount, base>>

\* ws.on('message') with the payload null once the snapshot is loaded: the
\* message callback counts it and hands it to applyEvent, whose destructuring
\* const { U, u, bids, asks } = event throws; the catch clause of WSClient
\* then calls the error callback.
WsNullMessage ==
    /\ ws = "open"
    /\ snapshotReceived
    /\ WsErrorCount < MaxWsErrors
    /\ SetTask(onError([Task EXCEPT !.messageCount = messageCount + 1,
                                     !.applied = Append(applied, JsonNull)]))
    /\ received' = Append(received, JsonNull)
    /\ UNCHANGED validated
    /\ last' = Last("onMessage", JsonNull, NoSnapshot, Pre)
    /\ UNCHANGED <<ws, isOpen, streamNext, fetchCount, base>>

\* SpecErrors: the test with a socket that also reports errors and delivers
\* payloads that are not depth updates.
\* The message an error is about carries ids only: the levels of the events
\* and snapshots of this session are left empty.
ErrorsEvents == {e \in StreamEvents : e.bids = <<>> /\ e.asks = <<>>}

ErrorsSnapshots == {s \in StreamSnapshots : s.bids = <<>> /\ s.asks = <<>>}

ErrorsMessage == WsMessageOf(ErrorsEvents)

ErrorsResponse == FetchResponseOf(ErrorsSnapshots)

NextErrors ==
    \/ WsOpen
    \/ ErrorsMessage
    \/ ErrorsResponse
    \/ FetchFailure
    \/ CloseAndSummarize
    \/ WsError
    \/ WsBadMessage
    \/ WsNullMessage

SpecErrors == Init /\ [][NextErrors]_vars

\* SpecGap: the test on a longer stream, so that events keep arriving after
\* a gap; the events change bids only and the snapshots carry no level.
GapEvents ==
    {e \in WellFormed(DepthUpdateEvents(MaxGapId, StreamLevels, MaxStreamLevels)) :
        e.asks = <<>>}

GapSnapshots ==
    {s \in OrderBookSnapshots(MaxGapId, SnapshotLevels, MaxStreamLevels) :
        s.bids = <<>> /\ s.asks = <<>>}

GapStreamMessage == WsMessageOf(GapEvents)

GapStreamResponse == FetchResponseOf(GapSnapshots)

NextGap ==
    \/ WsOpen
    \/ GapStreamMessage
    \/ GapStreamResponse
    \/ FetchFailure
    \/ CloseAndSummarize

SpecGap == Init /\ [][NextGap]_vars

\* Task 1: bidAskValidator(data), the prices being parsed into tenths.
bidAskValidator(data) ==
    LET highestBid == parseFloat(data.bids[1][1])
        lowestAsk == parseFloat(data.asks[1][1])
    IN  highestBid < lowestAsk

\* The levels of a depth response, and its non-empty lists in any order.
DepthLevels == Prices \X {"1", "2"}

DepthLists == SeqsUpTo(DepthLevels, MaxDepth) \ {<<>>}

DepthData == {[bids |-> b, asks |-> a] : b \in DepthLists, a \in DepthLists}

\* expect(bidAskValidator(data)) on some depth response
CallBidAskValidator ==
    /\ \E data \in DepthData :
          validated' = [bids |-> data.bids, asks |-> data.asks,
                        result |-> bidAskValidator(data)]
    /\ UNCHANGED <<bookVars, errors, taskVars, last>>

NextValidator == CallBidAskValidator

SpecValidator == Init /\ [][NextValidator]_vars

\* SpecScenario: the test run on the snapshot and the event of the spec's
\* end-to-end scenario and on inputs next to them.
ScenarioSnapshots ==
    {[lastUpdateId |-> id, bids |-> <<<<"10.0", "1">>>>,
      asks |-> <<<<"10.1", "1">>>>] : id \in {94, 100, 101}}

ScenarioEvents ==
    WellFormed({[U |-> U, u |-> u, bids |-> b, asks |-> <<>>] :
                   U \in {95, 102}, u \in {101, 102},
                   b \in {<<>>, <<<<"10.0", "0">>>>}})

ScenarioMessage == WsMessageOf(ScenarioEvents)
ScenarioResponse == FetchResponseOf(ScenarioSnapshots)

NextScenario ==
    WsOpen \/ ScenarioMessage \/ ScenarioResponse \/ CloseAndSummarize

SpecScenario == Init /\ [][NextScenario]_vars

----------------------------------------------------------------------------
(* Properties of LocalOrderBook, checked under SpecBook and SpecLevels *)

CalledOnInitialized ==
    last.op = "applyEvent" /\ last.pre.lastUpdateId # Null

BookUnchanged ==
    /\ bids = last.pre.bids
    /\ asks = last.pre.asks
    /\ lastUpdateId = last.pre.lastUpdateId

EventHasLevels(e) == Len(e.bids) + Len(e.asks) > 0

C1_GapCase ==
    CalledOnInitialized /\ last.event.U > last.pre.lastUpdateId + 1

\* C1: on an initialized book with cursor C, applyEvent of an event with
\* U > C + 1 appends exactly one message to the errors array it was handed
\* and leaves bids, asks and lastUpdateId as they were.
C1_GapRejected ==
    C1_GapCase =>
        /\ BookUnchanged
        /\ Len(errors) = Len(last.pre.errors) + 1
        /\ SubSeq(errors, 1, Len(last.pre.errors)) = last.pre.errors

\* A gapped event carrying a level was applied with a non-empty errors array.
C1_Witness ==
    /\ C1_GapCase
    /\ EventHasLevels(last.event)
    /\ last.pre.errors # <<>>

C3_StaleCase ==
    CalledOnInitialized /\ last.event.u < last.pre.lastUpdateId

\* C3: on an initialized book, applyEvent of an event with u < lastUpdateId
\* leaves bids, asks and lastUpdateId identical, whatever the event holds and
\* at every call of any call sequence.
C3_StaleIgnored == C3_StaleCase => BookUnchanged

\* A stale event naming a price with a quantity the book does not hold for it
\* was applied.
C3_Witness ==
    /\ C3_StaleCase
    /\ Len(last.event.bids) > 0
    /\ LET price == last.event.bids[1][1]
           qty == last.event.bids[1][2]
       IN  /\ parseFloat(qty) # 0
           /\ price \notin DOMAIN bids \/ bids[price] # qty

\* C5: once the book is initialized, no applyEvent call decreases
\* lastUpdateId, and a call that changes the book has u >= lastUpdateId as it
\* was when the call was made.
C5_CursorMonotone ==
    CalledOnInitialized =>
        /\ lastUpdateId >= last.pre.lastUpdateId
        /\ ~BookUnchanged => last.event.u >= last.pre.lastUpdateId

\* An event moved the cursor of an initialized book forward.
C5_Witness ==
    /\ CalledOnInitialized
    /\ lastUpdateId > last.pre.lastUpdateId
    /\ last.event.U <= last.pre.lastUpdateId

C12_MalformedCase ==
    /\ last.op = "applyEvent"
    /\ last.event.U = Undefined \/ last.event.u = Undefined

\* C12: an event that lacks U or u is dropped as a whole: applyEvent leaves
\* bids, asks and lastUpdateId as they were.
C12_MalformedDropped == C12_MalformedCase => BookUnchanged

NoZeroQuantity(side) == \A p \in DOMAIN side : parseFloat(side[p]) # 0

\* C6: once the book has been initialized from a snapshot, neither bids nor
\* asks holds an entry whose quantity is zero.
C6_NoZeroQuantityEntries ==
    lastUpdateId # Null => NoZeroQuantity(bids) /\ NoZeroQuantity(asks)

\* The last level naming price p in levels, 0 when none does.
LastIndexOf(levels, p) ==
    LET named == {i \in 1..Len(levels) : levels[i][1] = p}
    IN  IF named = {} THEN 0 ELSE CHOOSE i \in named : \A j \in named : j <= i

\* after is before with every level of levels processed in order.
LevelsProcessed(before, levels, after) ==
    /\ DOMAIN after \subseteq Prices
    /\ \A p \in Prices :
        LET i == LastIndexOf(levels, p) IN
        IF i = 0
        THEN /\ p \in DOMAIN after <=> p \in DOMAIN before
             /\ p \in DOMAIN before => after[p] = before[p]
        ELSE IF parseFloat(levels[i][2]) = 0
        THEN p \notin DOMAIN after
        ELSE p \in DOMAIN after /\ after[p] = levels[i][2]

C4_ApplyCase ==
    /\ CalledOnInitialized
    /\ last.event.u >= last.pre.lastUpdateId
    /\ last.event.U <= last.pre.lastUpdateId + 1

\* C4: on an initialized book with cursor C, applyEvent of an event with
\* u >= C and U <= C + 1 processes every level of its bids and asks in order
\* (zero quantity removes the price, any other sets or overwrites it), leaves
\* the prices it does not name untouched, and sets lastUpdateId to u.
C4_LevelsApplied ==
    C4_ApplyCase =>
        /\ LevelsProcessed(last.pre.bids, last.event.bids, bids)
        /\ LevelsProcessed(last.pre.asks, last.event.asks, asks)
        /\ lastUpdateId = last.event.u

\* An event naming one bid price twice, first to set it and then to remove
\* it, was applied to a book holding that price and another one.
C4_Witness ==
    /\ C4_ApplyCase
    /\ Len(last.event.bids) = 2
    /\ last.event.bids[1][1] = last.event.bids[2][1]
    /\ parseFloat(last.event.bids[1][2]) # 0
    /\ parseFloat(last.event.bids[2][2]) = 0
    /\ DOMAIN last.pre.bids = Prices
    /\ Cardinality(DOMAIN bids) = 1

\* The levels a side holds, and the levels an array lists.
Entries(side) == {<<p, side[p]>> : p \in DOMAIN side}
Listed(levels) == {levels[i] : i \in DOMAIN levels}

C15_LoadCase == last.op = "setFromSnapshot"

\* C15: after setFromSnapshot, whatever the book held before, every entry of
\* bids and asks is a level the snapshot lists for that side, every price the
\* snapshot lists has an entry, and lastUpdateId is snapshot.lastUpdateId.
C15_SnapshotOverwrites ==
    C15_LoadCase =>
        LET s == last.snapshot IN
        /\ Entries(bids) \subseteq Listed(s.bids)
        /\ DOMAIN bids = {l[1] : l \in Listed(s.bids)}
        /\ Entries(asks) \subseteq Listed(s.asks)
        /\ DOMAIN asks = {l[1] : l \in Listed(s.asks)}
        /\ lastUpdateId = s.lastUpdateId

\* A snapshot was loaded into an initialized book that held a bid price and
\* an ask price the snapshot does not list.
C15_Witness ==
    /\ C15_LoadCase
    /\ last.pre.lastUpdateId # Null
    /\ last.pre.lastUpdateId # lastUpdateId
    /\ DOMAIN last.pre.bids \ DOMAIN bids # {}
    /\ DOMAIN last.pre.asks \ DOMAIN asks # {}
    /\ Len(last.snapshot.bids) + Len(last.snapshot.asks) > 0

\* top is the level of side whose price is best: greatest when dir = -1,
\* smallest when dir = 1, as numbers; null exactly when side is empty.
BestLevel(side, top, dir) ==
    IF DOMAIN side = {} THEN top = NoLevel
    ELSE \E p \in DOMAIN side :
            /\ top = <<parseFloat(p), parseFloat(side[p])>>
            /\ \A q \in DOMAIN side :
                   dir * (parseFloat(q) - parseFloat(p)) >= 0

\* C19: getTopBid returns the bid with the numerically greatest price and
\* getTopAsk the ask with the numerically smallest price, each with its
\* quantity, and each returns null exactly when its side is empty.
C19_TopOfBook ==
    /\ BestLevel(bids, getTopBid(bids), -1)
    /\ BestLevel(asks, getTopAsk(asks), 1)

\* Both sides hold two prices with different quantities.
C19_Witness ==
    /\ DOMAIN bids = Prices /\ bids["10.0"] # bids["10.1"]
    /\ DOMAIN asks = Prices /\ asks["10.0"] # asks["10.1"]
    /\ getTopBid(bids) # getTopAsk(asks)

RECURSIVE Concat(_)
\* The arrays of arrs joined in order.
Concat(arrs) == IF arrs = <<>> THEN <<>> ELSE arrs[1] \o Concat(Tail(arrs))

RECURSIVE NetLevels(_, _)
\* One level for each price of prices: the last quantity levels names for it.
NetLevels(levels, prices) ==
    IF prices = {} THEN <<>>
    ELSE LET p == CHOOSE q \in prices : TRUE
         IN  <<<<p, levels[LastIndexOf(levels, p)][2]>>>>
                 \o NetLevels(levels, prices \ {p})

\* The aggregate of the events evs: from the first U to the last u, with one
\* level per price named on a side, carrying the last quantity named for it.
Aggregate(evs) ==
    LET allBids == Concat([i \in DOMAIN evs |-> evs[i].bids])
        allAsks == Concat([i \in DOMAIN evs |-> evs[i].asks])
    IN  [U |-> evs[1].U, u |-> evs[Len(evs)].u,
         bids |-> NetLevels(allBids, {allBids[i][1] : i \in DOMAIN allBids}),
         asks |-> NetLevels(allAsks, {allAsks[i][1] : i \in DOMAIN allAsks})]

C14_RunCase == base # NoSnapshot /\ applied # <<>>

\* C14: after a snapshot and a gapless run of events, bids, asks and
\* lastUpdateId are what initializing from the same snapshot and applying
\* the one aggregate event of the run gives.
C14_AggregateEquivalent ==
    C14_RunCase =>
        LET r == applyEvent(setFromSnapshot(base), Aggregate(applied),
                            [given |-> TRUE, list |-> <<>>])
        IN  /\ bids = r.bids
            /\ asks = r.asks
            /\ lastUpdateId = r.lastUpdateId
            /\ r.errors = <<>>

\* A run of two events on a snapshot holding a bid: the first overwrites
\* the bid, the second removes it.
C14_Witness ==
    /\ C14_RunCase
    /\ Len(applied) = 2
    /\ Len(base.bids) = 1
    /\ Len(applied[1].bids) = 1 /\ parseFloat(applied[1].bids[1][2]) # 0
    /\ applied[1].bids[1][2] # base.bids[1][2]
    /\ Len(applied[2].bids) = 1 /\ parseFloat(applied[2].bids[1][2]) = 0
    /\ bids = EmptyMap

----------------------------------------------------------------------------
(* Properties of the Task 2 synchronisation, checked under Spec *)

GapDetected ==
    /\ last.op \in {"onMessage", "fetch"}
    /\ Len(errors) > Len(last.pre.errors)

\* C2: whenever applying an event detects a sequence gap, the book is
\* discarded, events are buffered again and a fresh snapshot is requested.
C2_GapTriggersResync ==
    GapDetected =>
        /\ lastUpdateId = Null
        /\ ~snapshotReceived
        /\ pc = "fetching"

C7_BufferingCase ==
    last.op = "onMessage" /\ ~last.pre.snapshotReceived

\* C7: an event received before the snapshot is accepted is appended to the
\* event buffer and not applied; no event touches the book before the
\* snapshot is loaded.
C7_BufferedNotApplied ==
    /\ C7_BufferingCase =>
          /\ eventBuffer = Append(last.pre.eventBuffer, last.event)
          /\ BookUnchanged
    /\ ~snapshotReceived =>
          /\ bids = EmptyMap /\ asks = EmptyMap /\ lastUpdateId = Null
          /\ applied = <<>>

\* A second event carrying a level was buffered.
C7_Witness ==
    /\ C7_BufferingCase
    /\ Len(eventBuffer) = 2
    /\ EventHasLevels(last.event)

C8_StaleSnapshotCase ==
    /\ last.op = "fetch"
    /\ last.pre.eventBuffer # <<>>
    /\ last.snapshot.lastUpdateId < last.pre.eventBuffer[1].U

\* C8: a snapshot whose lastUpdateId is below the U of the first buffered
\* event does not initialize the book; the fetch loop goes on to the next
\* snapshot with the book uninitialized and the buffer kept.
C8_StaleSnapshotRejected ==
    C8_StaleSnapshotCase =>
        /\ lastUpdateId = Null /\ bids = EmptyMap /\ asks = EmptyMap
        /\ ~snapshotReceived
        /\ pc = "fetching"
        /\ eventBuffer = last.pre.eventBuffer

\* A snapshot with levels, older than the first buffered event, was fetched.
C8_Witness ==
    /\ C8_StaleSnapshotCase
    /\ Len(last.snapshot.bids) + Len(last.snapshot.asks) > 0

\* C9: the snapshot loop makes at most a given number of fetch attempts;
\* here the ceiling is MaxFetches - 1: once that many responses have been
\* consumed the loop is over.
C9_FetchAttemptsBounded ==
    fetchCount >= MaxFetches - 1 => pc # "fetching"

RECURSIVE ReplayAll(_, _)
\* The book and errors after applying the events evs, in order, to r.
ReplayAll(r, evs) ==
    IF evs = <<>> THEN r
    ELSE ReplayAll(applyEvent([bids |-> r.bids, asks |-> r.asks,
                               lastUpdateId |-> r.lastUpdateId],
                              evs[1], [given |-> TRUE, list |-> r.errors]),
                   Tail(evs))

C10_AcceptCase ==
    last.op = "fetch" /\ ~last.pre.snapshotReceived /\ snapshotReceived

\* C10: when a snapshot is accepted the book is initialized from it, every
\* buffered event with u <= snapshot.lastUpdateId is discarded unapplied, and
\* the other buffered events are handed to applyEvent in arrival order.
C10_DiscardThenReplay ==
    C10_AcceptCase =>
        LET s == last.snapshot
            kept == SelectSeq(last.pre.eventBuffer,
                              LAMBDA e : e.u > s.lastUpdateId)
            b == setFromSnapshot(s)
            r == ReplayAll([bids |-> b.bids, asks |-> b.asks,
                            lastUpdateId |-> b.lastUpdateId,
                            errors |-> last.pre.errors], kept)
        IN  /\ applied = kept
            /\ bids = r.bids /\ asks = r.asks
            /\ lastUpdateId = r.lastUpdateId
            /\ errors = r.errors

\* A snapshot was accepted with three events buffered: the first was
\* discarded and the other two replayed.
C10_Witness ==
    /\ C10_AcceptCase
    /\ Len(last.pre.eventBuffer) = 3
    /\ Len(applied) = 2
    /\ lastUpdateId = applied[2].u

\* C11: every received event is handled exactly once and in arrival order.
\* Before the snapshot is accepted the buffer is the events received and none
\* has been applied; afterwards the buffer is empty and the events handed to
\* applyEvent are the events received from some position on, in the order
\* received (those before that position were buffered and discarded).
C11_HandledOnceInOrder ==
    IF ~snapshotReceived
    THEN eventBuffer = received /\ applied = <<>>
    ELSE /\ eventBuffer = <<>>
         /\ \E k \in 0..Len(received) :
                applied = SubSeq(received, k + 1, Len(received))

\* A third event was applied on arrival, after one earlier event was
\* discarded and another applied.
C11_Witness ==
    /\ last.op = "onMessage"
    /\ last.pre.snapshotReceived
    /\ Len(received) = 3
    /\ Len(applied) = 2
    /\ applied[2] = last.event

C13_Snapshot ==
    [lastUpdateId |-> 100, bids |-> <<<<"10.0", "1">>>>,
     asks |-> <<<<"10.1", "1">>>>]

C13_Event == [U |-> 95, u |-> 101, bids |-> <<<<"10.0", "0">>>>, asks |-> <<>>]

C13_ScenarioCase ==
    /\ last.op = "fetch"
    /\ last.snapshot = C13_Snapshot
    /\ last.pre.eventBuffer = <<C13_Event>>

\* C13: with the snapshot {lastUpdateId 100, bids 10.0 -> 1, asks 10.1 -> 1}
\* and the one buffered event {U 95, u 101, bids [10.0 -> 0], asks []}, the
\* snapshot is accepted, the event is not discarded but applied after
\* initialization, the bid at 10.0 is removed, lastUpdateId is 101, the top
\* bid is empty and the top ask is 10.1.
C13_EndToEnd ==
    C13_ScenarioCase =>
        /\ snapshotReceived
        /\ applied = <<C13_Event>>
        /\ "10.0" \notin DOMAIN bids
        /\ lastUpdateId = 101
        /\ errors = <<>>
        /\ getTopBid(bids) = NoLevel
        /\ getTopAsk(asks) = <<parseFloat("10.1"), parseFloat("1")>>

\* The scenario's snapshot arrived with the scenario's event buffered.
C13_Witness == C13_ScenarioCase /\ pc = "listening"

C16_LoadStep == last.pre.lastUpdateId = Null /\ lastUpdateId # Null

\* C16: in a session lastUpdateId leaves null only by a snapshot load, never
\* by an event, and no snapshot is loaded again afterwards (a session past
\* its fetch loop has loaded exactly one); the event buffer grows only by
\* appending a received event while the book is uninitialized, is emptied at
\* the load and is empty ever after.
C16_Lifecycle ==
    /\ C16_LoadStep => last.op = "fetch"
    /\ last.pre.lastUpdateId # Null =>
          /\ lastUpdateId # Null
          /\ last.op # "fetch"
    /\ pc \in {"listening", "done"} <=> lastUpdateId # Null
    /\ eventBuffer # last.pre.eventBuffer =>
          /\ last.pre.lastUpdateId = Null
          /\ \/ /\ lastUpdateId = Null
                /\ last.op = "onMessage"
                /\ eventBuffer = Append(last.pre.eventBuffer, last.event)
             \/ C16_LoadStep /\ eventBuffer = <<>>
    /\ lastUpdateId # Null => eventBuffer = <<>>

\* A snapshot was loaded with two events buffered.
C16_Witness ==
    /\ C16_LoadStep
    /\ Len(last.pre.eventBuffer) = 2
    /\ eventBuffer = <<>>

\* C17: once wsClient.close() has been called, no message reaches the message
\* handler and the book does not change, whether the connection had opened
\* before the call or not.
C17_ClosedIsQuiet ==
    [][pc = "done" => UNCHANGED <<bids, asks, lastUpdateId, messageCount>>]_vars

\* The test ends in a failure: a rejection left the test body, or the final
\* expect(errors.length).toBe(0) does not hold.
TestFails == pc = "failed" \/ (pc = "done" /\ errors # <<>>)

\* C20: no failure other than the staleness ceiling being exceeded ends the
\* session or reaches the caller: a failed snapshot fetch is retried, and
\* sequence gaps are recovered without failing the session.  (The code has
\* no staleness ceiling, so no failure at all would reach the caller.)
C20_OnlyStalenessFails ==
    /\ last.op = "fetchFailed" => pc = "fetching"
    /\ ~TestFails

RECURSIVE GapCount(_, _)
\* The events of evs rejected as out of sequence when they are applied in
\* order to a book whose cursor is C.
GapCount(C, evs) ==
    IF evs = <<>> THEN 0
    ELSE LET e == evs[1] IN
         IF e.u < C THEN GapCount(C, Tail(evs))
         ELSE IF e.U > C + 1 THEN 1 + GapCount(C, Tail(evs))
         ELSE GapCount(e.u, Tail(evs))

\* The error callback ran in the last step.
ErrorReported ==
    \/ last.op \in {"onError", "badMessage"}
    \/ last.op = "onMessage" /\ last.event = JsonNull

\* The events handed to applyEvent in the last step and the cursor they met.
C21_GapsRejected ==
    IF last.op = "fetch" /\ snapshotReceived
    THEN GapCount(last.snapshot.lastUpdateId, applied)
    ELSE IF last.op = "onMessage" /\ last.pre.snapshotReceived
              /\ last.event # JsonNull
    THEN GapCount(last.pre.lastUpdateId, <<last.event>>)
    ELSE 0

\* C21: every step appends to errors one message for each event it rejects
\* as out of sequence and one for an error it reports through the error
\* callback, and nothing else; errors keeps what it held.  So errors is
\* empty at the end exactly when no event was rejected and no error reported.
C21_ErrorsAccounted ==
    /\ Len(errors) = Len(last.pre.errors) + C21_GapsRejected
                         + (IF ErrorReported THEN 1 ELSE 0)
    /\ SubSeq(errors, 1, Len(last.pre.errors)) = last.pre.errors
    /\ \A i \in DOMAIN errors :
          i > Len(last.pre.errors) /\ ~ErrorReported => errors[i] # WsErrorMessage

\* The session ended with one message for a rejected event and one for a
\* reported error.
C21_Witness ==
    /\ pc = "done"
    /\ Len(errors) = 2
    /\ WsErrorCount = 1

\* A sequence gap was detected before the last step.
C22_AfterGap == last.pre.errors # <<>>

Live == snapshotReceived

\* The last step replayed the buffer on a fresh snapshot and met a gap.
C23_GapInReplay ==
    /\ last.op = "fetch"
    /\ last.pre.eventBuffer # <<>>
    /\ Len(errors) > Len(last.pre.errors)

\* C23: events are applied directly only once the whole buffer has been
\* replayed, and a replay that detects a sequence gap does not make the
\* session Live.
C23_LiveAfterCleanReplay ==
    /\ Live => eventBuffer = <<>>
    /\ C23_GapInReplay => ~Live

\* Each event of evs starts where the one before it ended.
Gapless(evs) == \A i \in 2..Len(evs) : evs[i].U = evs[i - 1].u + 1

\* C24: on a gapless stream no event is rejected as out of sequence once the
\* snapshot is accepted, whenever the snapshot response arrives.
C24_GaplessNeverRejected ==
    Gapless(received) /\ snapshotReceived => errors = <<>>

\* The last step was the 'message' listener of WSClient.
MessageReceived == last.op \in {"onMessage", "badMessage"}

\* The payload of the last message was valid JSON.
ValidJson == last.op = "onMessage"

\* The message callback threw on the last message.
HandlerThrew == last.op = "onMessage" /\ last.event = JsonNull

OnMessageFired == messageCount = last.pre.messageCount + 1

OnErrorFired ==
    /\ Len(errors) > Len(last.pre.errors)
    /\ errors[Len(errors)] = WsErrorMessage

\* C25 as stated: every message fires exactly one callback, onMessage when
\* the payload is valid JSON and onError otherwise, and the socket keeps
\* delivering after a message that failed.
C25_ExactlyOneCallback ==
    MessageReceived =>
        /\ OnMessageFired <=> ValidJson
        /\ OnErrorFired <=> ~ValidJson
        /\ ws = "open"

\* C25, amended: onMessage fires exactly for the payloads that are valid
\* JSON, and onError fires exactly when the payload is not JSON or onMessage
\* threw, so that both fire for a valid payload whose handler throws; the
\* socket keeps delivering after a message that failed.
C25_CallbacksPerMessage ==
    MessageReceived =>
        /\ OnMessageFired <=> ValidJson
        /\ OnErrorFired <=> (~ValidJson \/ HandlerThrew)
        /\ ws = "open"

\* A depth update was delivered to onMessage after a message whose handler
\* threw.
C25_Witness ==
    /\ MessageReceived
    /\ last.event \in ErrorsEvents
    /\ OnMessageFired
    /\ \E i \in DOMAIN received : received[i] = JsonNull

RECURSIVE MaxPrice(_)
\* The highest price of a non-empty list of levels, in tenths.
MaxPrice(levels) ==
    IF Len(levels) = 1 THEN parseFloat(levels[1][1])
    ELSE LET m == MaxPrice(Tail(levels))
             p == parseFloat(levels[1][1])
         IN  IF p > m THEN p ELSE m

RECURSIVE MinPrice(_)
\* The lowest price of a non-empty list of levels, in tenths.
MinPrice(levels) ==
    IF Len(levels) = 1 THEN parseFloat(levels[1][1])
    ELSE LET m == MinPrice(Tail(levels))
             p == parseFloat(levels[1][1])
         IN  IF p < m THEN p ELSE m

C26_Validated == validated # NotValidated

\* C26: bidAskValidator returns true exactly when the highest bid price of
\* data.bids is strictly below the lowest ask price of data.asks, for all
\* non-empty lists.
C26_NotCrossedExactly ==
    C26_Validated =>
        (validated.result <=> MaxPrice(validated.bids) < MinPrice(validated.asks))

====
